---------------------------- MODULE Spec2Model ----------------------------
(***************************************************************************)
(* The challenge lifecycle engine of the Voltura captcha server: the       *)
(* sliding-window rate limiter (advancedRateLimit), the challenge store    *)
(* (captchaStore) with its generation, validation and fallback handlers,   *)
(* and the periodic cleanup.                                               *)
(*                                                                         *)
(* Node runs every handler to completion on one thread.  The chain         *)
(* advancedRateLimit -> botDetection -> route handler is synchronous (it   *)
(* holds no await and no callback), so one request is one atomic step of   *)
(* the model.  Time is Date.now() in milliseconds since the server         *)
(* started; successive reads inside one handler may differ.                *)
(***************************************************************************)
EXTENDS Integers, Sequences, FiniteSets, TLC

VARIABLES
    clock,          \* the last value Date.now() returned
    captchaStore,   \* Map: captchaId -> challenge record
    requestCounts,  \* Map: "ip:configKey" -> sequence of request timestamps
    issued,         \* the ids uuid() has returned so far
    cleanupDue,     \* the instant from which the cleanup timer may fire next
    inflight,       \* per connection, the validate request whose body is being read
    response,       \* the response sent by the latest request
    comparisons,    \* history: per id, validate calls that reached the comparison
    validReturns,   \* history: per id, validate calls that returned valid=true
    removedBy,      \* history: per id, what removed it from the store
    rejected,       \* history: the limiter keys that were answered 429
    raced,          \* history: ids validated while another request on them was in flight
    admitted,       \* history: per limiter key, the instants of the requests let through
    finishing       \* the generating requests whose 'finish' callback has yet to run

history == <<comparisons, validReturns, removedBy, rejected, raced, admitted>>

vars == <<clock, captchaStore, requestCounts, issued, cleanupDue, inflight,
          response, history, finishing>>

-----------------------------------------------------------------------------
(* config                                                                  *)

windowMs == 15 * 60 * 1000
expiration == 10 * 60 * 1000
cleanupInterval == 5 * 60 * 1000
rateLimitCleanupWindow == 24 * 60 * 60 * 1000
maxAttempts == 3
maxAnswerLength == 10

\* config.rateLimit.*.max is 100, 200 and 500 in the source.  The window of a
\* key holds up to max raw timestamps, so the model runs the same limiter with
\* small maxima; the properties checked are stated for whatever max is.
maxCaptchaGeneration == 2
maxCaptchaValidation == 5
maxGeneral == 1

limitMax(configKey) ==
    CASE configKey = "captchaGeneration" -> maxCaptchaGeneration
      [] configKey = "captchaValidation" -> maxCaptchaValidation
      [] OTHER -> maxGeneral

allowedDifficulties == {"easy", "medium", "hard", "extreme"}

-----------------------------------------------------------------------------
(* JavaScript values of the request body and their conversions             *)

Undefined == [t |-> "undefined"]
Null == [t |-> "null"]
Str(s) == [t |-> "string", s |-> s]     \* s: a sequence of one-character strings
Num(n) == [t |-> "number", n |-> n, e |-> 0]       \* the JSON number n
NumE(n, e) == [t |-> "number", n |-> n, e |-> e]   \* the JSON number n * 10^e

\* A JSON object whose own "toString" and "valueOf" are not functions, such as
\* {"toString": 1, "valueOf": 1}: it has no conversion to a primitive.
Unprintable == [t |-> "object"]

\* String(v) throws a TypeError.
Throws(v) == v.t = "object"

DigitChars == <<"0", "1", "2", "3", "4", "5", "6", "7", "8", "9">>
HexChars == DigitChars \o <<"a", "b", "c", "d", "e", "f">>
WhiteSpace == {" "}

IndexOf(seq, c) ==
    IF \E i \in 1..Len(seq) : seq[i] = c
    THEN CHOOSE i \in 1..Len(seq) : seq[i] = c /\ \A j \in 1..(i - 1) : seq[j] # c
    ELSE 0

Drop(s, k) == SubSeq(s, k + 1, Len(s))

\* Number::toString for an integer below 10^21: the decimal digits, "-" first
\* for a negative one.
RECURSIVE NatToString(_)
NatToString(n) ==
    IF n < 10 THEN <<DigitChars[n + 1]>>
    ELSE NatToString(n \div 10) \o <<DigitChars[(n % 10) + 1]>>

Zeros(e) == [i \in 1..e |-> "0"]

\* String(v).  A number is an integer n * 10^e below 10^21, which prints as
\* its decimal digits (no exponent form).
StringOf(v) ==
    CASE v.t = "string" -> v.s
      [] v.t = "number" ->
            (IF v.n < 0 THEN <<"-">> ELSE <<>>)
            \o NatToString(IF v.n < 0 THEN -v.n ELSE v.n)
            \o (IF v.n = 0 THEN <<>> ELSE Zeros(v.e))
      [] v.t = "null" -> <<"n", "u", "l", "l">>
      [] OTHER -> <<"u", "n", "d", "e", "f", "i", "n", "e", "d">>

RECURSIVE TrimStart(_)
TrimStart(s) ==
    IF s # <<>> /\ s[1] \in WhiteSpace THEN TrimStart(Tail(s)) ELSE s

\* Integers are 32 bits wide here and every stored answer is below 1000: a
\* parsed value of ParseCap or more is kept as ParseCap, which no answer equals.
ParseCap == 1000 * 1000 * 1000

Accumulate(acc, R, d) ==
    IF acc > (ParseCap - d) \div R THEN ParseCap ELSE acc * R + d

\* The value of the longest prefix of s made of radix-R digits, and its length.
RECURSIVE DigitPrefix(_, _, _, _)
DigitPrefix(s, R, acc, len) ==
    IF s = <<>> THEN [val |-> acc, len |-> len]
    ELSE LET d == IndexOf(HexChars, s[1]) - 1
         IN  IF d >= 0 /\ d < R
             THEN DigitPrefix(Tail(s), R, Accumulate(acc, R, d), len + 1)
             ELSE [val |-> acc, len |-> len]

NaN == [nan |-> TRUE, val |-> 0]

\* parseInt(v) with no radix: String(v), skip leading white space, an optional
\* sign, an optional 0x prefix (then base 16), the longest digit prefix; NaN
\* when that prefix is empty.  What follows the digits is ignored.  For a v
\* with Throws(v) the call does not return.
parseInt(v) ==
    LET s0 == TrimStart(StringOf(v))
        neg == s0 # <<>> /\ s0[1] = "-"
        s1 == IF s0 # <<>> /\ s0[1] \in {"+", "-"} THEN Tail(s0) ELSE s0
        hex == Len(s1) >= 2 /\ s1[1] = "0" /\ s1[2] = "x"
        s2 == IF hex THEN Drop(s1, 2) ELSE s1
        p == DigitPrefix(s2, IF hex THEN 16 ELSE 10, 0, 0)
    IN  IF p.len = 0 THEN NaN
        ELSE [nan |-> FALSE, val |-> IF neg THEN -p.val ELSE p.val]

-----------------------------------------------------------------------------
(* advancedRateLimit                                                       *)

configKeyOf(path) ==
    IF path = "/api/captcha" THEN "captchaGeneration"
    ELSE IF path = "/api/validate-captcha" THEN "captchaValidation"
    ELSE "general"

\* `${ip}:${configKey}`
KeyOf(ip, path) == <<ip, configKeyOf(path)>>

\* Math.ceil(a / b) for b > 0
Ceil(a, b) == -((-a) \div b)

Window(key) == IF key \in DOMAIN requestCounts THEN requestCounts[key] ELSE <<>>

PrunedInclusive(seq, now) == SelectSeq(seq, LAMBDA time : time >= now - windowMs)

Pruned(seq, now) == SelectSeq(seq, LAMBDA time : time > now - windowMs)

advancedRateLimitRecording(ip, path, now) ==
    LET requests == Append(Pruned(Window(KeyOf(ip, path)), now), now)
        max == limitMax(configKeyOf(path))
    IN  IF Len(requests) > max
        THEN [allowed |-> FALSE,
              requests |-> requests,
              retryAfter |-> Ceil(requests[1] + windowMs - now, 1000)]
        ELSE [allowed |-> TRUE, requests |-> requests, retryAfter |-> 0]

\* The middleware at instant now: the pruned window is stored; at max or more
\* entries the request is answered 429 and nothing is appended, otherwise now
\* is appended and the request goes on to its handler.
advancedRateLimit(ip, path, now) ==
    LET requests == Pruned(Window(KeyOf(ip, path)), now)
        max == limitMax(configKeyOf(path))
    IN  IF Len(requests) >= max
        THEN [allowed |-> FALSE,
              requests |-> requests,
              retryAfter |-> Ceil(requests[1] + windowMs - now, 1000)]
        ELSE [allowed |-> TRUE,
              requests |-> Append(requests, now),
              retryAfter |-> 0]

SetWindowOfClient(key, requests) ==
    [k \in DOMAIN requestCounts \cup {key} |->
        IF k[1] = key[1] THEN requests ELSE requestCounts[k]]

SetWindow(key, requests) ==
    [k \in DOMAIN requestCounts \cup {key} |->
        IF k = key THEN requests ELSE requestCounts[k]]

-----------------------------------------------------------------------------
(* responses                                                               *)

NoId == ""            \* a captchaId that is absent from the body (falsy)
NoDifficulty == ""    \* a query parameter that is absent (falsy)
UndefinedType == "undefined"

Response(kind, status, valid, reason, attempts, retryAfter, id, difficulty) ==
    [kind |-> kind, status |-> status, valid |-> valid, reason |-> reason,
     attempts |-> attempts, retryAfter |-> retryAfter, captchaId |-> id,
     difficulty |-> difficulty]

NoResponse == Response("none", 0, FALSE, "", 0, 0, NoId, NoDifficulty)

TooManyRequests(path, retryAfter) ==
    Response(path, 429, FALSE, "Too many requests", 0, retryAfter, NoId, NoDifficulty)

-----------------------------------------------------------------------------
(* botDetection and determineDifficulty                                    *)

\* A user-agent header is modelled by what the handlers' regular expressions
\* find in it: present (non-empty), bot (the botPatterns that match, in
\* order), mobi (Mobi|Android|iPhone), ipad (iPad), tablet (Tablet).  The
\* accept header by whether it includes application/json or text/html.

botScoreOf(headers) ==
    (IF ~headers.ua.present THEN 10 ELSE 0)
    + 5 * Len(headers.ua.bot)
    + (IF ~headers.acceptsJsonOrHtml THEN 3 ELSE 0)

botSignalsOf(headers) ==
    (IF ~headers.ua.present THEN <<"missing-user-agent">> ELSE <<>>)
    \o headers.ua.bot
    \o (IF ~headers.acceptsJsonOrHtml THEN <<"suspicious-accept">> ELSE <<>>)

determineDifficultyScoreFirst(headers, botScore, requestedDifficulty) ==
    IF requestedDifficulty # NoDifficulty /\ requestedDifficulty \in allowedDifficulties
    THEN requestedDifficulty
    ELSE IF botScore > 15 THEN "hard"
    ELSE IF headers.ua.mobi \/ headers.ua.ipad THEN "easy"
    ELSE "medium"

determineDifficulty(headers, botScore, requestedDifficulty) ==
    IF requestedDifficulty # NoDifficulty /\ requestedDifficulty \in allowedDifficulties
    THEN requestedDifficulty
    ELSE LET isMobile == headers.ua.mobi \/ headers.ua.ipad
             isTablet == headers.ua.tablet \/ headers.ua.ipad
         IN  IF isMobile THEN "easy"
             ELSE IF isTablet THEN "medium"
             ELSE IF botScore > 15 THEN "hard"
             ELSE IF botScore > 25 THEN "extreme"
             ELSE "medium"

-----------------------------------------------------------------------------
(* generateCaptcha                                                         *)

\* Math.random() is u / RandGrain for a draw u in 0..RandGrain-1; a call of
\* generateCaptcha consumes the draws r[1], r[2], ... in order.
RandGrain == 60

Draws == 0..(RandGrain - 1)

\* Math.floor(Math.random() * n)
FloorRandom(u, n) == (u * n) \div RandGrain

randomInRange(u, min, max) == FloorRandom(u, max - min + 1) + min

difficulties(difficulty) ==
    CASE difficulty = "easy" ->
            [types |-> <<"addition", "subtraction">>, min |-> 1, max |-> 10]
      [] difficulty = "hard" ->
            [types |-> <<"multiplication", "simpleAlgebra", "mixedOperations",
                         "wordProblem">>, min |-> 1, max |-> 20]
      [] difficulty = "extreme" ->
            [types |-> <<"complexAlgebra", "multipleOperations", "logicPuzzle">>,
             min |-> 5, max |-> 30]
      [] OTHER ->
            [types |-> <<"addition", "subtraction", "multiplication",
                         "numberToText">>, min |-> 1, max |-> 15]

Max2(a, b) == IF a >= b THEN a ELSE b
Min2(a, b) == IF a <= b THEN a ELSE b

\* The question is kept as its template and the numbers printed in it
\* (applyDistortion changes its characters, never the numbers' values).
Question(form, a, b, c) == [form |-> form, a |-> a, b |-> b, c |-> c]

generateBasicCaptchaSigned(type, min, max, r) ==
    LET a == randomInRange(r[2], min, max)
        b == randomInRange(r[3], min, max)
    IN  CASE type = "subtraction" ->
                [question |-> Question("What is a - b?", Max2(a, b), Min2(a, b), 0),
                 answer |-> a - b, type |-> UndefinedType]
          [] type = "multiplication" ->
                [question |-> Question("What is a x b?", a, b, 0),
                 answer |-> a * b, type |-> UndefinedType]
          [] type = "numberToText" ->
                LET num == randomInRange(r[4], 0, 10)
                IN  [question |-> Question("Type the number: word(a)", num, 0, 0),
                     answer |-> num, type |-> UndefinedType]
          [] OTHER ->
                [question |-> Question("What is a + b?", a, b, 0),
                 answer |-> a + b, type |-> UndefinedType]

\* generateBasicCaptcha returns {question, answer}: its result has no type.
generateBasicCaptcha(type, min, max, r) ==
    LET a == randomInRange(r[2], min, max)
        b == randomInRange(r[3], min, max)
    IN  CASE type = "subtraction" ->
                [question |-> Question("What is a - b?", Max2(a, b), Min2(a, b), 0),
                 answer |-> Max2(a, b) - Min2(a, b), type |-> UndefinedType]
          [] type = "multiplication" ->
                [question |-> Question("What is a x b?", a, b, 0),
                 answer |-> a * b, type |-> UndefinedType]
          [] type = "numberToText" ->
                LET num == randomInRange(r[4], 0, 10)
                IN  [question |-> Question("Type the number: word(a)", num, 0, 0),
                     answer |-> num, type |-> UndefinedType]
          [] OTHER ->
                [question |-> Question("What is a + b?", a, b, 0),
                 answer |-> a + b, type |-> UndefinedType]

generateCaptcha(difficulty, r) ==
    LET config == difficulties(difficulty)
        type == config.types[FloorRandom(r[1], Len(config.types)) + 1]
    IN  CASE type = "mixedOperations" ->
                LET ops == <<"+", "-", "*">>
                    opIndex == FloorRandom(r[2], 3) + 1
                    op == ops[opIndex]
                    num1 == randomInRange(r[3], config.min, config.max)
                    num2 == randomInRange(r[4], config.min, config.max)
                IN  [question |-> Question(<<"Calculate: a + b", "Calculate: a - b",
                                             "Calculate: a * b">>[opIndex], num1, num2, 0),
                     answer |-> CASE op = "+" -> num1 + num2
                                  [] op = "-" -> num1 - num2
                                  [] OTHER -> num1 * num2,
                     type |-> type]
          [] type = "wordProblem" ->
                LET problem == FloorRandom(r[2], 3) + 1
                    pA == randomInRange(r[3], 2, 10)
                    pB == randomInRange(r[4], 2, 10)
                IN  [question |-> Question(<<"apples: a and b more", "pizza: a slices, eat b",
                                             "cars: a with b wheels">>[problem], pA, pB, 0),
                     answer |-> CASE problem = 1 -> pA + pB
                                  [] problem = 2 -> pA - pB
                                  [] OTHER -> pA * pB,
                     type |-> type]
          [] type = "complexAlgebra" ->
                LET coeff == randomInRange(r[2], 2, 5)
                    constant == randomInRange(r[3], 1, 10)
                    result == coeff * randomInRange(r[4], 3, 8) + constant
                IN  [question |-> Question("Solve for x: ax + b = c", coeff, constant, result),
                     \* (result - constant) / coeff is exact, Math.round keeps it
                     answer |-> (result - constant) \div coeff,
                     type |-> type]
          [] type = "logicPuzzle" ->
                LET puzzle == FloorRandom(r[2], 2) + 1
                IN  [question |-> Question(<<"next number: 2, 4, 6, 8, ?",
                                             "3 cats 3 mice 3 minutes">>[puzzle], 0, 0, 0),
                     answer |-> <<10, 3>>[puzzle],
                     type |-> type]
          [] OTHER -> generateBasicCaptcha(type, config.min, config.max, r)

-----------------------------------------------------------------------------
(* the clock                                                               *)

\* The instants the model visits: at most MaxSkew ms after a multiple of the
\* cleanup interval (5 minutes divides every period of the configuration).
MaxSkew == 1

OnGrid(t) == t % cleanupInterval <= MaxSkew

\* Time passes between two requests.
\* A response finishing in less than this many ms is taken for automated.
fastResponse == 50

\* Time passes.  A 'finish' callback that runs fastResponse ms or more after
\* its request started does nothing, so the callbacks still waiting by then
\* are dropped with the passing of time.
Tick(d, maxClock) ==
    /\ d > 0
    /\ clock + d <= maxClock
    /\ OnGrid(clock + d)
    /\ clock' = clock + d
    /\ finishing' = {f \in finishing : clock' - f.start < fastResponse}
    /\ UNCHANGED <<captchaStore, requestCounts, issued, cleanupDue, response,
                   comparisons, validReturns, removedBy, rejected, admitted>>

-----------------------------------------------------------------------------
(* the maps and the history                                                *)

EmptyMap == [k \in {} |-> 0]

Put(store, id, data) ==
    [k \in DOMAIN store \cup {id} |-> IF k = id THEN data ELSE store[k]]

Delete(store, id) == [k \in DOMAIN store \ {id} |-> store[k]]

\* The ids uuid() hands out in the model, and one it never does.
CaptchaIds == {"c1", "c2"}
UnknownId == "zz"

Count(f, id, yes) ==
    IF yes /\ id \in DOMAIN f THEN [f EXCEPT ![id] = @ + 1] ELSE f

Removal(before, after, cause) ==
    [id \in CaptchaIds |->
        IF id \in DOMAIN before /\ id \notin DOMAIN after THEN cause ELSE removedBy[id]]

Rejection(rl, key) == IF rl.allowed THEN rejected ELSE rejected \cup {key}

Admission(rl, key, now) ==
    IF rl.allowed
    THEN [k \in DOMAIN admitted \cup {key} |->
            IF k = key
            THEN Append(IF key \in DOMAIN admitted THEN admitted[key] ELSE <<>>, now)
            ELSE admitted[k]]
    ELSE admitted

-----------------------------------------------------------------------------
(* GET /api/captcha                                                        *)

NoValidation ==
    [present |-> FALSE, timestamp |-> 0, valid |-> FALSE,
     userAnswer |-> Undefined, actualAnswer |-> 0]

\* The challenge the handler stores.  createdAt and expiresAt come from two
\* reads of Date.now(): t1 and then t2.
NewChallenge(ip, headers, requestedDifficulty, r, t1, t2) ==
    LET botScore == botScoreOf(headers)
        contextDifficulty == determineDifficulty(headers, botScore, requestedDifficulty)
        captcha == generateCaptcha(contextDifficulty, r)
    IN  [answer |-> captcha.answer,
         createdAt |-> t1,
         expiresAt |-> t2 + expiration,
         attempts |-> 0,
         difficulty |-> contextDifficulty,
         type |-> captcha.type,
         context |-> [userAgent |-> headers.ua,
                      ip |-> ip,
                      botScore |-> botScore,
                      botSignals |-> botSignalsOf(headers),
                      requestedDifficulty |-> requestedDifficulty,
                      determinedDifficulty |-> contextDifficulty],
         lastValidation |-> NoValidation]

\* id is the value uuid() returns: one it never returned before.  d1 and d2
\* are the ms that pass before the first and the second read of Date.now().
Generate(ip, headers, requestedDifficulty, r, id, d1, d2) ==
    \E path \in {"/api/captcha"} :
    \E rl \in {advancedRateLimit(ip, path, clock)} :
    \E data \in {NewChallenge(ip, headers, requestedDifficulty, r,
                              clock + d1, clock + d1 + d2)} :
        /\ requestCounts' = SetWindow(KeyOf(ip, path), rl.requests)
        /\ rejected' = Rejection(rl, KeyOf(ip, path))
        /\ admitted' = Admission(rl, KeyOf(ip, path), clock)
        /\ UNCHANGED <<cleanupDue, comparisons, validReturns, removedBy>>
        /\ IF ~rl.allowed
           THEN /\ response' = TooManyRequests(path, rl.retryAfter)
                /\ UNCHANGED <<clock, captchaStore, issued, finishing>>
           ELSE /\ id \notin issued
                /\ finishing' = finishing \cup {[id |-> id, start |-> clock]}
                /\ OnGrid(clock + d1 + d2)
                /\ clock' = clock + d1 + d2
                /\ issued' = issued \cup {id}
                /\ captchaStore' = Put(captchaStore, id, data)
                /\ response' = Response(path, 200, FALSE, "", 0, 0, id, data.difficulty)

\* The callback botDetection registers with res.on('finish') for the request
\* that generated id.  botSignals is the array the handler put in the
\* stored context: the push is seen through the store.
Finish(id) ==
    \E f \in {g \in finishing : g.id = id} :
        /\ finishing' = finishing \ {f}
        /\ captchaStore' =
              IF clock - f.start < fastResponse /\ id \in DOMAIN captchaStore
              THEN [captchaStore EXCEPT ![id].context.botSignals =
                                             Append(@, "fast-response")]
              ELSE captchaStore
        /\ UNCHANGED <<clock, requestCounts, issued, cleanupDue, response, history>>

-----------------------------------------------------------------------------
(* POST /api/validate-captcha                                              *)

Missing(captchaId, answer) ==
    captchaId = NoId \/ answer = Undefined \/ answer = Null

TooLongNever(answer) == FALSE

TooLong(answer) ==
    answer.t = "string" /\ Len(answer.s) > maxAnswerLength

Expired(data, now) == now > data.expiresAt

OverLimitEarly(attempts) == attempts >= maxAttempts

OverLimitLate(attempts) == attempts > maxAttempts + 1

OverLimit(attempts) == attempts > maxAttempts

IsValid(answer, data) ==
    LET userAnswer == parseInt(answer)
    IN  ~userAnswer.nan /\ userAnswer.val = data.answer

Unbumped(n) == n

Bump(n) == n + 1

SettleKeeping(store, captchaId, recorded, isValid) == Put(store, captchaId, recorded)

SettleDeleting(store, captchaId, recorded, isValid) == Delete(store, captchaId)

\* The store after the answer was compared: the entry is deleted on a valid
\* answer and written back otherwise.
Settle(store, captchaId, recorded, isValid) ==
    IF isValid THEN Delete(store, captchaId) ELSE Put(store, captchaId, recorded)

\* What the handler does to the store entry it found, and what it answers,
\* once the input checks passed and the entry exists.  t1 is Date.now() at the
\* expiry check and t2 at the write of lastValidation.
ValidateFound(captchaId, answer, t1, t2) ==
    LET path == "/api/validate-captcha"
        found == captchaStore[captchaId]
        counted == [found EXCEPT !.attempts = Bump(found.attempts)]
        isValid == IsValid(answer, counted)
        recorded == [counted EXCEPT !.lastValidation =
                        [present |-> TRUE, timestamp |-> t2, valid |-> isValid,
                         userAnswer |-> answer, actualAnswer |-> counted.answer]]
    IN  IF Expired(found, t1)
        THEN [store |-> Delete(captchaStore, captchaId), now |-> t1,
              compared |-> FALSE, valid |-> FALSE, cause |-> "expired",
              response |-> Response(path, 200, FALSE, "CAPTCHA expired", 0, 0,
                                    captchaId, NoDifficulty)]
        ELSE IF OverLimit(counted.attempts)
        THEN [store |-> Delete(captchaStore, captchaId), now |-> t1,
              compared |-> FALSE, valid |-> FALSE, cause |-> "attempts",
              response |-> Response(path, 200, FALSE, "Too many attempts", 0, 0,
                                    captchaId, NoDifficulty)]
        ELSE IF Throws(answer)
        THEN \* The call has passed the attempt check and reached the validation
             \* of the answer: parseInt throws, after attempts++ changed the
             \* stored object, and the catch block answers.
             [store |-> Put(captchaStore, captchaId, counted), now |-> t1,
              compared |-> TRUE, valid |-> FALSE, cause |-> "none",
              response |-> Response(path, 500, FALSE, "Validation error", 0, 0,
                                    captchaId, NoDifficulty)]
        ELSE [store |-> Settle(captchaStore, captchaId, recorded, isValid),
              now |-> t2, compared |-> TRUE, valid |-> isValid, cause |-> "valid",
              response |-> Response(path, 200, isValid,
                                    IF isValid THEN "" ELSE "Wrong answer",
                                    counted.attempts, 0, captchaId, counted.difficulty)]

ValidateHandler(captchaId, answer, t1, t2) ==
    LET path == "/api/validate-captcha"
        unchanged(reason, status) ==
            [store |-> captchaStore, now |-> clock, compared |-> FALSE, valid |-> FALSE,
             cause |-> "none",
             response |-> Response(path, status, FALSE, reason, 0, 0, captchaId,
                                   NoDifficulty)]
    IN  IF Missing(captchaId, answer)
        THEN unchanged("Missing captchaId or answer", 400)
        ELSE IF TooLong(answer)
        THEN unchanged("Answer too long", 200)
        ELSE IF captchaId \notin DOMAIN captchaStore
        THEN unchanged("Invalid or expired CAPTCHA", 200)
        ELSE ValidateFound(captchaId, answer, t1, t2)

Validate(ip, captchaId, answer, d1, d2) ==
    \E path \in {"/api/validate-captcha"} :
    \E rl \in {advancedRateLimit(ip, path, clock)} :
    \E out \in {ValidateHandler(captchaId, answer, clock + d1, clock + d1 + d2)} :
        /\ requestCounts' = SetWindow(KeyOf(ip, path), rl.requests)
        /\ rejected' = Rejection(rl, KeyOf(ip, path))
        /\ admitted' = Admission(rl, KeyOf(ip, path), clock)
        /\ UNCHANGED <<issued, cleanupDue, finishing>>
        /\ IF ~rl.allowed
           THEN /\ response' = TooManyRequests(path, rl.retryAfter)
                /\ UNCHANGED <<clock, captchaStore, comparisons, validReturns, removedBy>>
           ELSE /\ OnGrid(out.now)
                /\ clock' = out.now
                /\ captchaStore' = out.store
                /\ response' = out.response
                /\ comparisons' = Count(comparisons, captchaId, out.compared)
                /\ validReturns' = Count(validReturns, captchaId, out.valid)
                /\ removedBy' = Removal(captchaStore, out.store, out.cause)

-----------------------------------------------------------------------------
(* requests in flight                                                      *)

\* express.json() reads the body of a POST asynchronously before the chain of
\* synchronous middleware runs: several validate requests can be in flight,
\* and their handlers then run one at a time, in any order.
Idle == [id |-> NoId, answer |-> Undefined, ip |-> ""]

Arrive(conn, ip, captchaId, answer) ==
    /\ inflight[conn] = Idle
    /\ inflight' = [inflight EXCEPT ![conn] = [id |-> captchaId, answer |-> answer, ip |-> ip]]
    /\ UNCHANGED <<clock, captchaStore, requestCounts, issued, cleanupDue, response,
                   history, finishing>>

\* A request that is handled with no other one in flight.
Alone == UNCHANGED <<inflight, raced>>

Deliver(conn) ==
    /\ inflight[conn] # Idle
    /\ Validate(inflight[conn].ip, inflight[conn].id, inflight[conn].answer, 0, 0)
    /\ inflight' = [inflight EXCEPT ![conn] = Idle]
    /\ raced' = IF \E other \in DOMAIN inflight \ {conn} :
                       inflight[other] # Idle /\ inflight[other].id = inflight[conn].id
                THEN raced \cup {inflight[conn].id}
                ELSE raced

-----------------------------------------------------------------------------
(* GET /api/captcha/fallback                                               *)

fallbackDifficultyEscalating(previousDifficulty) ==
    LET order == <<"easy", "medium", "hard", "extreme">>
        currentIndex == IndexOf(order, previousDifficulty) - 1
    IN  IF previousDifficulty # NoDifficulty /\ IndexOf(order, previousDifficulty) > 0
        THEN order[Min2(currentIndex + 1, Len(order) - 1) + 1]
        ELSE "easy"

fallbackDifficultyOf(previousDifficulty) ==
    LET order == <<"extreme", "hard", "medium", "easy">>
        currentIndex == IndexOf(order, previousDifficulty) - 1
    IN  IF previousDifficulty # NoDifficulty /\ IndexOf(order, previousDifficulty) > 0
        THEN order[Min2(currentIndex + 1, Len(order) - 1) + 1]
        ELSE "easy"

DiscardAll(store, previousCaptchaId) ==
    IF previousCaptchaId # NoId /\ previousCaptchaId \in DOMAIN store
    THEN EmptyMap
    ELSE store

Discard(store, previousCaptchaId) ==
    IF previousCaptchaId # NoId /\ previousCaptchaId \in DOMAIN store
    THEN Delete(store, previousCaptchaId)
    ELSE store

FallbackBeforeLimit(ip, previousDifficulty, previousCaptchaId) ==
    \E path \in {"/api/captcha/fallback"} :
    \E rl \in {advancedRateLimit(ip, path, clock)} :
        /\ requestCounts' = SetWindow(KeyOf(ip, path), rl.requests)
        /\ rejected' = Rejection(rl, KeyOf(ip, path))
        /\ admitted' = Admission(rl, KeyOf(ip, path), clock)
        /\ UNCHANGED <<clock, issued, cleanupDue, comparisons, validReturns, finishing>>
        /\ captchaStore' = Discard(captchaStore, previousCaptchaId)
        /\ removedBy' = Removal(captchaStore, captchaStore', "discard")
        /\ response' = IF ~rl.allowed
                       THEN TooManyRequests(path, rl.retryAfter)
                       ELSE Response(path, 302, FALSE, "", 0, 0, previousCaptchaId,
                                     fallbackDifficultyOf(previousDifficulty))

\* The handler answers with a redirect to /api/captcha?difficulty=...; the
\* request the client then sends is a Generate step of its own.
Fallback(ip, previousDifficulty, previousCaptchaId) ==
    \E path \in {"/api/captcha/fallback"} :
    \E rl \in {advancedRateLimit(ip, path, clock)} :
        /\ requestCounts' = SetWindow(KeyOf(ip, path), rl.requests)
        /\ rejected' = Rejection(rl, KeyOf(ip, path))
        /\ admitted' = Admission(rl, KeyOf(ip, path), clock)
        /\ UNCHANGED <<clock, issued, cleanupDue, comparisons, validReturns, finishing>>
        /\ IF ~rl.allowed
           THEN /\ response' = TooManyRequests(path, rl.retryAfter)
                /\ UNCHANGED <<captchaStore, removedBy>>
           ELSE /\ captchaStore' = Discard(captchaStore, previousCaptchaId)
                /\ removedBy' = Removal(captchaStore, captchaStore', "discard")
                /\ response' = Response(path, 302, FALSE, "", 0, 0, previousCaptchaId,
                                        fallbackDifficultyOf(previousDifficulty))

-----------------------------------------------------------------------------
(* GET /api/health                                                         *)

\* An endpoint that reads nothing of the two maps: only the limiter acts.
Health(ip) ==
    \E path \in {"/api/health"} :
    \E rl \in {advancedRateLimit(ip, path, clock)} :
        /\ requestCounts' = SetWindow(KeyOf(ip, path), rl.requests)
        /\ rejected' = Rejection(rl, KeyOf(ip, path))
        /\ admitted' = Admission(rl, KeyOf(ip, path), clock)
        /\ response' = IF rl.allowed
                       THEN Response(path, 200, FALSE, "", 0, 0, NoId, NoDifficulty)
                       ELSE TooManyRequests(path, rl.retryAfter)
        /\ UNCHANGED <<clock, captchaStore, issued, cleanupDue, comparisons,
                       validReturns, removedBy, finishing>>

-----------------------------------------------------------------------------
(* GET /api/analytics                                                      *)

\* The two counters the handler computes over the stored challenges.
successfulValidations(store) ==
    Cardinality({id \in DOMAIN store :
                    store[id].lastValidation.present /\ store[id].lastValidation.valid})

failedValidations(store) ==
    Cardinality({id \in DOMAIN store :
                    store[id].lastValidation.present /\ ~store[id].lastValidation.valid})

-----------------------------------------------------------------------------
(* setInterval cleanup                                                     *)

SweepExpiredInclusive(store, now) ==
    [k \in {id \in DOMAIN store : ~(now >= store[id].expiresAt)} |-> store[k]]

SweepNothing(store, now) == store

SweepExpired(store, now) ==
    [k \in {id \in DOMAIN store : ~(now > store[id].expiresAt)} |-> store[k]]

SweepRequestsEager(counts, now) ==
    LET valid(key) == SelectSeq(counts[key], LAMBDA time : now - time < cleanupInterval)
    IN  [k \in {key \in DOMAIN counts : Len(valid(key)) # 0} |-> valid(k)]

SweepRequests(counts, now) ==
    LET valid(key) == SelectSeq(counts[key], LAMBDA time : now - time < rateLimitCleanupWindow)
    IN  [k \in {key \in DOMAIN counts : Len(valid(key)) # 0} |-> valid(k)]

\* The timer fires no sooner than cleanupInterval after it was armed, and is
\* armed again when its callback runs.
Cleanup ==
    /\ clock >= cleanupDue
    /\ captchaStore' = SweepExpired(captchaStore, clock)
    /\ requestCounts' = SweepRequests(requestCounts, clock)
    /\ cleanupDue' = clock + cleanupInterval
    /\ removedBy' = Removal(captchaStore, captchaStore', "sweep")
    /\ UNCHANGED <<clock, issued, response, comparisons, validReturns, rejected,
                   admitted, finishing>>

-----------------------------------------------------------------------------
(* the server after start-up                                               *)

MaxInflight == 2

Connections == 1..MaxInflight

Init ==
    /\ clock = 0
    /\ captchaStore = EmptyMap
    /\ requestCounts = EmptyMap
    /\ issued = {}
    /\ cleanupDue = cleanupInterval
    /\ inflight = [conn \in Connections |-> Idle]
    /\ response = NoResponse
    /\ comparisons = [id \in CaptchaIds |-> 0]
    /\ validReturns = [id \in CaptchaIds |-> 0]
    /\ removedBy = [id \in CaptchaIds |-> "none"]
    /\ rejected = {}
    /\ admitted = EmptyMap
    /\ raced = {}
    /\ finishing = {}

-----------------------------------------------------------------------------
(* requests                                                                *)

Browser ==
    [ua |-> [present |-> TRUE, bot |-> <<>>, mobi |-> FALSE, ipad |-> FALSE,
             tablet |-> FALSE],
     acceptsJsonOrHtml |-> TRUE]

Client == "10.0.0.1"

\* easy, addition, operands 3 and 4: the answer is 7
Draw34 == <<0, 12, 18, 0>>

Seven == Str(<<"7">>)
Eight == Str(<<"8">>)
Letter == Str(<<"x">>)
SevenPadded == Str(<<"0", "0", "0", "0", "0", "0", "0", "0", "0", "0", "7">>)
TenBillion == NumE(1, 10)

-----------------------------------------------------------------------------
(* Spec: the life of one challenge, from its creation to its removal       *)

Next ==
    \/ (\E d \in {1, expiration} : Tick(d, expiration + MaxSkew)) /\ Alone
    \/ (\E d2 \in {0, 1} : Generate(Client, Browser, "easy", Draw34, "c1", 0, d2)) /\ Alone
    \/ (\E answer \in {Seven, Eight} : Validate(Client, "c1", answer, 0, 0)) /\ Alone
    \/ Fallback(Client, "easy", "c1") /\ Alone
    \/ Cleanup /\ Alone

Spec == Init /\ [][Next]_vars

-----------------------------------------------------------------------------
(* SpecInput: every shape of submitted value, on one challenge             *)

AllAnswers ==
    {Undefined, Null, Seven, Eight, Letter, SevenPadded, TenBillion,
     Str(<<"7", "x">>), Str(<<" ", "7">>), Str(<<>>), Num(7), Num(8)}

NextInput ==
    \/ Tick(expiration + 1, expiration + MaxSkew) /\ Alone
    \/ Generate(Client, Browser, "easy", Draw34, "c1", 0, 0) /\ Alone
    \/ (\E id \in {"c1", NoId}, answer \in AllAnswers :
            Validate(Client, id, answer, 0, 0)) /\ Alone

SpecInput == Init /\ [][NextInput]_vars

-----------------------------------------------------------------------------
(* SpecConcurrent: validate requests in flight at the same time            *)

NextConcurrent ==
    \/ Tick(expiration + 1, expiration + MaxSkew) /\ Alone
    \/ Generate(Client, Browser, "easy", Draw34, "c1", 0, 0) /\ Alone
    \/ \E conn \in Connections, answer \in {Seven, Eight} :
            Arrive(conn, Client, "c1", answer)
    \/ \E conn \in Connections : Deliver(conn)
    \/ Fallback(Client, "easy", "c1") /\ Alone
    \/ Cleanup /\ Alone

SpecConcurrent == Init /\ [][NextConcurrent]_vars

-----------------------------------------------------------------------------
(* SpecLimiter: the windows of one client over more than windowMs          *)

LimiterPaths == {"/api/health", "/api/validate-captcha"}

LimiterRequest(ip, path) ==
    IF path = "/api/validate-captcha"
    THEN Validate(ip, NoId, Undefined, 0, 0)
    ELSE Health(ip)

NextLimiter ==
    \/ (\E d \in {1, windowMs} : Tick(d, windowMs + MaxSkew)) /\ Alone
    \/ (\E path \in LimiterPaths : LimiterRequest(Client, path)) /\ Alone
    \/ Cleanup /\ Alone

SpecLimiter == Init /\ [][NextLimiter]_vars

-----------------------------------------------------------------------------
(* SpecClients: two clients and every endpoint class, within one window    *)

Other == "10.0.0.2"
Clients == {Client, Other}

NextClients ==
    \/ Generate(Client, Browser, "easy", Draw34, "c1", 0, 0) /\ Alone
    \/ (\E ip \in Clients : Validate(ip, "c1", Eight, 0, 0)) /\ Alone
    \/ (\E ip \in Clients, previousCaptchaId \in {"c1", NoId} :
            Fallback(ip, "easy", previousCaptchaId)) /\ Alone
    \/ (\E ip \in Clients : Health(ip)) /\ Alone

SpecClients == Init /\ [][NextClients]_vars

-----------------------------------------------------------------------------
(* SpecDiscard: two challenges of one client, discarded by fallback        *)

PreviousIds == {"c1", NoId, UnknownId}

NextDiscard ==
    \/ Tick(expiration + 1, expiration + MaxSkew) /\ Alone
    \/ (\E id \in CaptchaIds :
            Generate(Client, Browser, "easy", Draw34, id, 0, 0)) /\ Alone
    \/ (\E id \in CaptchaIds : Validate(Client, id, Eight, 0, 0)) /\ Alone
    \/ (\E previousCaptchaId \in PreviousIds :
            Fallback(Client, "easy", previousCaptchaId)) /\ Alone

SpecDiscard == Init /\ [][NextDiscard]_vars

-----------------------------------------------------------------------------
(* SpecDifficulty: every kind of request header and difficulty parameter   *)

BotPatterns ==
    <<"bot-ua-bot", "bot-ua-crawl", "bot-ua-spider", "bot-ua-scrape", "bot-ua-python",
      "bot-ua-curl", "bot-ua-wget", "bot-ua-phantom", "bot-ua-headless",
      "bot-ua-chrome-lighthouse">>

\* How many of the botPatterns the user-agents of the model match: scores of
\* 0 to 33 with the accept header, on both sides of 15 and of 25.
BotCounts == {0, 3, 4, 5, 6}

NoUserAgent ==
    [present |-> FALSE, bot |-> <<>>, mobi |-> FALSE, ipad |-> FALSE, tablet |-> FALSE]

UserAgents ==
    {NoUserAgent} \cup
    {[present |-> TRUE, bot |-> SubSeq(BotPatterns, 1, k), mobi |-> m, ipad |-> i,
      tablet |-> t] : k \in BotCounts, m \in BOOLEAN, i \in BOOLEAN, t \in BOOLEAN}

AllHeaders == {[ua |-> ua, acceptsJsonOrHtml |-> a] : ua \in UserAgents, a \in BOOLEAN}

Unrecognized == {NoDifficulty, "insane"}
RequestedDifficulties == allowedDifficulties \cup Unrecognized

NextDifficulty ==
    \/ (\E headers \in AllHeaders, requestedDifficulty \in RequestedDifficulties :
            Generate(Client, headers, requestedDifficulty, Draw34, "c1", 0, 0)) /\ Alone
    \/ (\E previousDifficulty \in RequestedDifficulties :
            Fallback(Client, previousDifficulty, "c1")) /\ Alone

SpecDifficulty == Init /\ [][NextDifficulty]_vars

-----------------------------------------------------------------------------
(* SpecLive: a challenge that is never redeemed, with time and the timer   *)
(* going on                                                                *)

\* The clock runs until one cleanup interval after the latest expiry.
LiveHorizon == expiration + cleanupInterval + MaxSkew

LiveTick == (\E d \in {1, cleanupInterval} : Tick(d, LiveHorizon)) /\ Alone

LiveCleanup == Cleanup /\ Alone

NextLive ==
    \/ LiveTick
    \/ (\E d2 \in {0, 1} :
            clock = 0 /\ Generate(Client, Browser, "easy", Draw34, "c1", 0, d2)) /\ Alone
    \/ Validate(Client, "c1", Eight, 0, 0) /\ Alone
    \/ LiveCleanup

\* Date.now() keeps growing and the event loop keeps running the interval
\* timer's callback: both are weakly fair.  No request is required to come.
SpecLive ==
    /\ Init
    /\ [][NextLive]_vars
    /\ WF_vars(LiveTick)
    /\ WF_vars(LiveCleanup)

-----------------------------------------------------------------------------
(* SpecGenerator: every difficulty and kind of puzzle                      *)

\* The draws of Math.random() the model takes: the lowest, the highest and
\* two between, so that every kind and both ends of every range are chosen.
DrawSet == {0, RandGrain \div 3, (2 * RandGrain) \div 3, RandGrain - 1}

DrawTuples == {<<u1, u2, u3, u4>> : u1 \in DrawSet, u2 \in DrawSet, u3 \in DrawSet, u4 \in DrawSet}

NextGenerator ==
    \/ (\E difficulty \in allowedDifficulties, r \in DrawTuples :
            Generate(Client, Browser, difficulty, r, "c1", 0, 0)) /\ Alone
    \/ (\E answer \in {Seven, Eight} : Validate(Client, "c1", answer, 0, 0)) /\ Alone

SpecGenerator == Init /\ [][NextGenerator]_vars

-----------------------------------------------------------------------------
(* SpecContext: the 'finish' callback of the generating request            *)

NextContext ==
    \/ (\E d \in {1, cleanupInterval} : Tick(d, 2 * cleanupInterval)) /\ Alone
    \/ (\E headers \in {Browser, [Browser EXCEPT !.ua = NoUserAgent]} :
            Generate(Client, headers, "easy", Draw34, "c1", 0, 0)) /\ Alone
    \/ Finish("c1") /\ Alone
    \/ Validate(Client, "c1", Eight, 0, 0) /\ Alone
    \/ Cleanup /\ Alone

SpecContext == Init /\ [][NextContext]_vars

-----------------------------------------------------------------------------
(* SpecSweep: the limiter over more than a day, with the cleanup timer     *)

SweepHorizon == rateLimitCleanupWindow + windowMs

\* Time passes by two cleanup intervals, which is less than windowMs, at the
\* start of a day, or by a day.
SweepTick ==
    \/ /\ clock % rateLimitCleanupWindow < cleanupInterval
       /\ Tick(2 * cleanupInterval, SweepHorizon + MaxSkew)
    \/ Tick(rateLimitCleanupWindow, SweepHorizon + MaxSkew)

NextSweep ==
    \/ SweepTick /\ Alone
    \/ (\E path \in LimiterPaths : LimiterRequest(Client, path)) /\ Alone
    \/ Cleanup /\ Alone

SpecSweep == Init /\ [][NextSweep]_vars

-----------------------------------------------------------------------------
(* SpecLate: a client that finds the answer one attempt too late           *)

\* The attempts a stored challenge has counted.
AttemptsOf(id) == IF id \in DOMAIN captchaStore THEN captchaStore[id].attempts ELSE 0

\* The client submits a wrong answer while the challenge has attempts left,
\* and the correct one from then on.
NextLate ==
    \/ (\E d \in {1, cleanupInterval} : Tick(d, expiration + MaxSkew)) /\ Alone
    \/ (\E d2 \in {0, 1} : Generate(Client, Browser, "easy", Draw34, "c1", 0, d2)) /\ Alone
    \/ (\E d2 \in {0, 1} :
            /\ AttemptsOf("c1") < maxAttempts
            /\ Validate(Client, "c1", Eight, 0, d2)) /\ Alone
    \/ (\E d2 \in {0, 1} :
            /\ AttemptsOf("c1") = maxAttempts
            /\ Validate(Client, "c1", Seven, 0, d2)) /\ Alone
    \/ Cleanup /\ Alone

SpecLate == Init /\ [][NextLate]_vars

-----------------------------------------------------------------------------
(* SpecValues: answers of every JSON type                                  *)

AnyAnswers == {Seven, Eight, Letter, Unprintable}

NextValues ==
    \/ (\E d \in {1, expiration} : Tick(d, expiration + MaxSkew)) /\ Alone
    \/ Generate(Client, Browser, "easy", Draw34, "c1", 0, 0) /\ Alone
    \/ (\E answer \in AnyAnswers : Validate(Client, "c1", answer, 0, 0)) /\ Alone
    \/ Cleanup /\ Alone

SpecValues == Init /\ [][NextValues]_vars

-----------------------------------------------------------------------------
(* properties of the validation handler                                    *)

\* The values that pass the handler's input checks.
WellFormed == {answer \in AllAnswers : ~Missing("c1", answer) /\ ~TooLong(answer)}

\* The validate handler ran on (captchaId, answer): the limiter let the
\* request through.
ValidateRan(captchaId, answer) ==
    /\ Validate(Client, captchaId, answer, 0, 0)
    /\ response'.status # 429

\* answer does not parse to the stored answer of captchaId
Wrong(captchaId, answer) ==
    parseInt(answer).nan \/ parseInt(answer).val # captchaStore[captchaId].answer

Unexpired(captchaId) == ~(clock > captchaStore[captchaId].expiresAt)

\* C1: one-time use.  A validate call that returns valid=true leaves the id
\* out of the store, the id never comes back, and every later validate call
\* on it that passes the input checks, whatever the value, the correct one
\* included, returns valid=false with reason "Invalid or expired CAPTCHA".
OneTimeUse ==
    [][\A id \in CaptchaIds :
          /\ validReturns'[id] > validReturns[id] => id \notin DOMAIN captchaStore'
          /\ validReturns[id] > 0 => id \notin DOMAIN captchaStore'
          /\ \A answer \in WellFormed :
                ValidateRan(id, answer) /\ validReturns[id] > 0
                => /\ ~response'.valid
                   /\ response'.reason = "Invalid or expired CAPTCHA"]_vars

\* C1: the id was redeemed, and a later validate call with the correct answer
\* was answered.
OneTimeUseWitness ==
    /\ validReturns["c1"] = 1
    /\ removedBy["c1"] = "valid"
    /\ response.captchaId = "c1"
    /\ response.reason = "Invalid or expired CAPTCHA"

\* C2: attempt limit.  On an unexpired challenge, a wrong answer that follows
\* fewer than maxAttempts compared answers is answered "Wrong answer" and the
\* challenge stays; the wrong answer that follows maxAttempts of them is
\* answered "Too many attempts" and removes the challenge; every validate
\* call on the id after that is answered "Invalid or expired CAPTCHA".
AttemptLimit ==
    [][\A id \in CaptchaIds, answer \in WellFormed :
          ValidateRan(id, answer)
          => /\ (id \in DOMAIN captchaStore /\ Unexpired(id) /\ Wrong(id, answer))
                => IF comparisons[id] < maxAttempts
                   THEN /\ response'.reason = "Wrong answer"
                        /\ ~response'.valid
                        /\ id \in DOMAIN captchaStore'
                   ELSE /\ comparisons[id] = maxAttempts
                        /\ response'.reason = "Too many attempts"
                        /\ ~response'.valid
                        /\ id \notin DOMAIN captchaStore'
             /\ removedBy[id] = "attempts"
                => /\ response'.reason = "Invalid or expired CAPTCHA"
                   /\ ~response'.valid
                   /\ id \notin DOMAIN captchaStore']_vars

\* C2: maxAttempts wrong answers were compared, the next call removed the
\* challenge, and a call after that was answered.
AttemptLimitWitness ==
    /\ comparisons["c1"] = maxAttempts
    /\ validReturns["c1"] = 0
    /\ removedBy["c1"] = "attempts"
    /\ response.captchaId = "c1"
    /\ response.reason = "Invalid or expired CAPTCHA"

\* C3: every challenge in the store has attempts between 0 and maxAttempts.
AttemptsWithinLimit ==
    \A id \in DOMAIN captchaStore :
        /\ captchaStore[id].attempts >= 0
        /\ captchaStore[id].attempts <= maxAttempts

\* C3: a stored challenge has used all its attempts.
AttemptsWithinLimitWitness ==
    \E id \in DOMAIN captchaStore : captchaStore[id].attempts = maxAttempts

\* C4: a validate call with well-formed input at now = createdAt + TTL + 1 ms
\* is answered "CAPTCHA expired", removes the challenge and compares nothing.
ExpiredOneMsAfterTtl ==
    [][\A id \in CaptchaIds, answer \in WellFormed :
          /\ ValidateRan(id, answer)
          /\ id \in DOMAIN captchaStore
          /\ clock = captchaStore[id].createdAt + expiration + 1
          => /\ response'.reason = "CAPTCHA expired"
             /\ ~response'.valid
             /\ id \notin DOMAIN captchaStore'
             /\ comparisons' = comparisons]_vars

-----------------------------------------------------------------------------
(* properties of concurrent validations (SpecConcurrent)                   *)

\* The last response is that of a validate call that reached the comparison.
ComparedResponse ==
    /\ response.kind = "/api/validate-captcha"
    /\ response.status = 200
    /\ (response.valid \/ response.reason = "Wrong answer")

\* C5: whatever the order in which validate requests in flight on one id,
\* sweeps and discards are handled, at most one call returns valid=true, a
\* redeemed id is not in the store, the attempts of a stored challenge equal
\* the number of calls that reached the comparison, and a call that reached
\* it reports that number (no increment is lost).
AtomicValidation ==
    /\ \A id \in CaptchaIds :
          /\ validReturns[id] <= 1
          /\ validReturns[id] = 1 => id \notin DOMAIN captchaStore
          /\ id \in DOMAIN captchaStore => captchaStore[id].attempts = comparisons[id]
    /\ ComparedResponse => response.attempts = comparisons[response.captchaId]

\* C5: two validate requests on the same id were in flight together, one of
\* them redeemed the challenge and a later one was turned away.
AtomicValidationWitness ==
    /\ "c1" \in raced
    /\ validReturns["c1"] = 1
    /\ comparisons["c1"] >= 2
    /\ response.captchaId = "c1"
    /\ response.reason = "Invalid or expired CAPTCHA"

-----------------------------------------------------------------------------
(* properties of the submitted value (SpecInput)                           *)

SubmittedIds == {"c1", NoId}

\* C6: a validate call on a stored, unexpired challenge with attempts left,
\* whose value does not parse to the stored answer (a value that parses to
\* nothing included), is answered 200 "Wrong answer" with valid=false; the
\* challenge stays, its attempts grow by exactly one and its lastValidation
\* is this submission, marked not valid; nothing else of it changes.
WrongAnswerRetained ==
    [][\A id \in CaptchaIds, answer \in WellFormed :
          /\ ValidateRan(id, answer)
          /\ id \in DOMAIN captchaStore
          /\ Unexpired(id)
          /\ captchaStore[id].attempts + 1 <= maxAttempts
          /\ Wrong(id, answer)
          => /\ response'.status = 200
             /\ ~response'.valid
             /\ response'.reason = "Wrong answer"
             /\ response'.attempts = captchaStore[id].attempts + 1
             /\ id \in DOMAIN captchaStore'
             /\ captchaStore'[id] =
                   [captchaStore[id] EXCEPT
                       !.attempts = @ + 1,
                       !.lastValidation =
                           [present |-> TRUE, timestamp |-> clock', valid |-> FALSE,
                            userAnswer |-> answer,
                            actualAnswer |-> captchaStore[id].answer]]]_vars

\* C6: a value that parses to nothing was recorded as a wrong answer on a
\* challenge that is still stored.
WrongAnswerRetainedWitness ==
    /\ "c1" \in DOMAIN captchaStore
    /\ captchaStore["c1"].attempts >= 1
    /\ captchaStore["c1"].lastValidation.present
    /\ captchaStore["c1"].lastValidation.userAnswer = Letter
    /\ ~captchaStore["c1"].lastValidation.valid
    /\ response.reason = "Wrong answer"

\* C7: a validate call with no id, with an undefined or null value, or with
\* a string longer than maxAnswerLength is turned away with a reason and
\* leaves the store as it was, also when the id names a stored challenge;
\* nothing is compared.
InputRejectionKeepsStore ==
    [][\A id \in SubmittedIds, answer \in AllAnswers :
          /\ ValidateRan(id, answer)
          /\ \/ id = NoId
             \/ answer \in {Undefined, Null}
             \/ (answer.t = "string" /\ Len(answer.s) > maxAnswerLength)
          => /\ captchaStore' = captchaStore
             /\ ~response'.valid
             /\ response'.reason \in {"Missing captchaId or answer", "Answer too long"}
             /\ comparisons' = comparisons
             /\ validReturns' = validReturns]_vars

\* C7: an over-long string was turned away on the id of a challenge that is
\* stored and has been answered before.
InputRejectionKeepsStoreWitness ==
    /\ response.reason = "Answer too long"
    /\ response.captchaId \in DOMAIN captchaStore
    /\ captchaStore[response.captchaId].attempts >= 1

\* C8: every value whose serialized form is longer than maxAnswerLength, a
\* string or a number, is answered "Answer too long", is not counted and is
\* not compared.
LongValueRejected ==
    [][\A id \in CaptchaIds, answer \in AllAnswers \ {Undefined, Null} :
          /\ ValidateRan(id, answer)
          /\ Len(StringOf(answer)) > maxAnswerLength
          => /\ response'.reason = "Answer too long"
             /\ captchaStore' = captchaStore
             /\ comparisons' = comparisons]_vars

-----------------------------------------------------------------------------
(* properties of the rate limiter (SpecLimiter)                            *)

\* The sequence stored under key after the step.
WindowAfter(key) ==
    IF key \in DOMAIN requestCounts' THEN requestCounts'[key] ELSE <<>>

\* The timestamps of seq less than windowMs old at the current instant.
Recent(seq) == {i \in 1..Len(seq) : clock - seq[i] < windowMs}

\* C9: a check that finds fewer than max timestamps of the last windowMs under
\* its key is allowed and adds one; a check that finds max of them is
\* rejected with retryAfter > 0; a check made once windowMs has passed since
\* the oldest stored timestamp is allowed.
SlidingWindow ==
    [][\A path \in LimiterPaths :
          LimiterRequest(Client, path)
          => LET key == KeyOf(Client, path)
                 w == Window(key)
                 max == limitMax(configKeyOf(path))
             IN  /\ Cardinality(Recent(w)) < max
                    => /\ response'.status # 429
                       /\ Len(WindowAfter(key)) = Cardinality(Recent(w)) + 1
                 /\ Cardinality(Recent(w)) >= max
                    => /\ response'.status = 429
                       /\ response'.retryAfter > 0
                 /\ (w # <<>> /\ clock - w[1] >= windowMs)
                    => response'.status # 429]_vars

\* C9: a key was rejected within its window and, windowMs after its oldest
\* timestamp, was allowed again.
SlidingWindowWitness ==
    /\ KeyOf(Client, "/api/health") \in rejected
    /\ clock >= windowMs
    /\ response.kind = "/api/health"
    /\ response.status = 200
    /\ Window(KeyOf(Client, "/api/health")) = <<clock>>

\* C10: a rejected check stores exactly the timestamps of the last windowMs
\* that were stored before it, in their order, and appends nothing: the
\* oldest of them, from which retryAfter counts, is the same after it.
RejectionRecordsNothing ==
    [][\A path \in LimiterPaths :
          LimiterRequest(Client, path) /\ response'.status = 429
          => LET key == KeyOf(Client, path)
                 w == Window(key)
                 kept == SelectSeq(w, LAMBDA time : clock - time < windowMs)
             IN  /\ Len(kept) >= limitMax(configKeyOf(path))
                 /\ WindowAfter(key) = kept
                 /\ response'.retryAfter = Ceil(kept[1] + windowMs - clock, 1000)]_vars

\* C10: a check was rejected at an instant later than every stored timestamp
\* of its key, and that instant is not stored.
RejectionRecordsNothingWitness ==
    /\ response.status = 429
    /\ response.kind = "/api/validate-captcha"
    /\ LET w == Window(KeyOf(Client, "/api/validate-captcha"))
       IN  /\ Len(w) = maxCaptchaValidation
           /\ \A i \in 1..Len(w) : w[i] < clock

-----------------------------------------------------------------------------
(* properties of the limiter's keys (SpecClients)                          *)

Paths == {"/api/captcha", "/api/validate-captcha", "/api/captcha/fallback", "/api/health"}

\* A request of SpecClients from ip to path.
RequestOf(ip, path) ==
    CASE path = "/api/captcha" ->
            ip = Client /\ Generate(ip, Browser, "easy", Draw34, "c1", 0, 0)
      [] path = "/api/validate-captcha" -> Validate(ip, "c1", Eight, 0, 0)
      [] path = "/api/captcha/fallback" ->
            \E previousCaptchaId \in {"c1", NoId} : Fallback(ip, "easy", previousCaptchaId)
      [] OTHER -> Health(ip)

\* C11: a request of client ip to an endpoint of class k changes the window
\* stored under (ip, k) only: every other key keeps its sequence and no other
\* key appears; and it is rejected only when its own key already holds max
\* timestamps, whatever the other keys hold.
KeyIsolation ==
    [][\A ip \in Clients, path \in Paths :
          RequestOf(ip, path)
          => /\ \A key \in DOMAIN requestCounts \ {KeyOf(ip, path)} :
                   /\ key \in DOMAIN requestCounts'
                   /\ requestCounts'[key] = requestCounts[key]
             /\ DOMAIN requestCounts' \subseteq DOMAIN requestCounts \cup {KeyOf(ip, path)}
             /\ response'.status = 429
                => Len(Window(KeyOf(ip, path))) >= limitMax(configKeyOf(path))
             /\ Len(Window(KeyOf(ip, path))) < limitMax(configKeyOf(path))
                => response'.status # 429]_vars

\* C11: the general class of one client was exhausted, the other client has
\* windows of its own, and a validation of the first client was served.
KeyIsolationWitness ==
    /\ KeyOf(Client, "/api/health") \in rejected
    /\ Len(Window(KeyOf(Client, "/api/health"))) = maxGeneral
    /\ Window(KeyOf(Other, "/api/health")) # <<>>
    /\ Window(KeyOf(Other, "/api/validate-captcha")) # <<>>
    /\ response.kind = "/api/validate-captcha"
    /\ response.status = 200

-----------------------------------------------------------------------------
(* properties of the fallback handler (SpecDiscard)                        *)

\* C14: a fallback request that names a stored challenge removes it, expired
\* or not and whatever its attempts, and leaves every other challenge as it
\* was; one that names no id or an unknown id leaves the store as it was; a
\* validate call on a discarded id is answered "Invalid or expired CAPTCHA".
FallbackDiscard ==
    [][/\ \A previousCaptchaId \in PreviousIds :
             /\ response'.status = 302
             /\ Fallback(Client, "easy", previousCaptchaId)
             => /\ DOMAIN captchaStore' = DOMAIN captchaStore \ {previousCaptchaId}
                /\ \A id \in DOMAIN captchaStore' : captchaStore'[id] = captchaStore[id]
                /\ previousCaptchaId \notin DOMAIN captchaStore
                   => captchaStore' = captchaStore
       /\ \A id \in CaptchaIds, answer \in WellFormed :
             removedBy[id] = "discard" /\ ValidateRan(id, answer)
             => /\ ~response'.valid
                /\ response'.reason = "Invalid or expired CAPTCHA"
                /\ captchaStore' = captchaStore]_vars

\* C14: a challenge that had been answered was discarded while another one
\* stayed in the store, and a later validate call on it was answered.
FallbackDiscardWitness ==
    /\ removedBy["c1"] = "discard"
    /\ comparisons["c1"] >= 1
    /\ "c2" \in DOMAIN captchaStore
    /\ captchaStore["c2"].attempts >= 1
    /\ response.kind = "/api/validate-captcha"
    /\ response.captchaId = "c1"
    /\ response.reason = "Invalid or expired CAPTCHA"

-----------------------------------------------------------------------------
(* properties of the difficulty (SpecDifficulty)                           *)

\* The fallback handler answered previousDifficulty with a redirect.
FallbackRan(previousDifficulty) ==
    /\ response'.status = 302
    /\ Fallback(Client, previousDifficulty, "c1")

\* C13, as claimed: fallback moves one step toward "extreme": easy gives
\* medium, medium gives hard, hard and extreme give extreme, and no or an
\* unrecognized previousDifficulty gives easy.
FallbackEscalates ==
    [][\A previousDifficulty \in RequestedDifficulties :
          FallbackRan(previousDifficulty)
          => response'.difficulty =
                CASE previousDifficulty = "easy" -> "medium"
                  [] previousDifficulty = "medium" -> "hard"
                  [] previousDifficulty = "hard" -> "extreme"
                  [] previousDifficulty = "extreme" -> "extreme"
                  [] OTHER -> "easy"]_vars

\* C13, amended: fallback moves one step toward "easy": extreme gives hard,
\* hard gives medium, medium and easy give easy, and no or an unrecognized
\* previousDifficulty gives easy.
FallbackDeescalates ==
    [][\A previousDifficulty \in RequestedDifficulties :
          FallbackRan(previousDifficulty)
          => response'.difficulty =
                CASE previousDifficulty = "extreme" -> "hard"
                  [] previousDifficulty = "hard" -> "medium"
                  [] previousDifficulty = "medium" -> "easy"
                  [] previousDifficulty = "easy" -> "easy"
                  [] OTHER -> "easy"]_vars

\* C13: a fallback request was redirected to difficulty hard, which only
\* previousDifficulty = extreme gives.
FallbackDeescalatesWitness ==
    /\ response.kind = "/api/captcha/fallback"
    /\ response.status = 302
    /\ response.difficulty = "hard"

\* The generation handler stored a challenge for (headers, requestedDifficulty).
GenerateRan(headers, requestedDifficulty) ==
    /\ response'.status = 200
    /\ Generate(Client, headers, requestedDifficulty, Draw34, "c1", 0, 0)

\* The score botDetection gives the headers.
ScoreOf(headers) ==
    (IF headers.ua.present THEN 0 ELSE 10) + 5 * Len(headers.ua.bot)
    + (IF headers.acceptsJsonOrHtml THEN 0 ELSE 3)

\* C15: with no recognized requested difficulty and a user-agent that is
\* neither mobile nor tablet, a score above 25 gives extreme, a score above
\* 15 and not above 25 gives hard, a score of 15 or less gives medium.
ScoreThresholds ==
    [][\A headers \in AllHeaders, requestedDifficulty \in Unrecognized :
          /\ GenerateRan(headers, requestedDifficulty)
          /\ ~headers.ua.mobi /\ ~headers.ua.ipad /\ ~headers.ua.tablet
          => captchaStore'["c1"].difficulty =
                IF ScoreOf(headers) > 25 THEN "extreme"
                ELSE IF ScoreOf(headers) > 15 THEN "hard"
                ELSE "medium"]_vars

\* C16: a requested difficulty that is one of the four levels is the
\* difficulty of the challenge whatever the headers; otherwise a user-agent
\* that matches Mobi, Android, iPhone or iPad gives easy whatever the score.
DifficultyPrecedence ==
    [][\A headers \in AllHeaders, requestedDifficulty \in RequestedDifficulties :
          GenerateRan(headers, requestedDifficulty)
          => /\ requestedDifficulty \in {"easy", "medium", "hard", "extreme"}
                => captchaStore'["c1"].difficulty = requestedDifficulty
             /\ (requestedDifficulty \in Unrecognized
                 /\ (headers.ua.mobi \/ headers.ua.ipad))
                => captchaStore'["c1"].difficulty = "easy"]_vars

\* C16: a mobile user-agent with a score above 25 and no recognized requested
\* difficulty was given an easy challenge.
DifficultyPrecedenceWitness ==
    /\ "c1" \in DOMAIN captchaStore
    /\ captchaStore["c1"].context.requestedDifficulty \in Unrecognized
    /\ captchaStore["c1"].context.userAgent.mobi
    /\ captchaStore["c1"].context.botScore > 25
    /\ captchaStore["c1"].difficulty = "easy"

\* C17: with no recognized requested difficulty, a user-agent that matches
\* Tablet or iPad gives medium.
TabletMedium ==
    [][\A headers \in AllHeaders, requestedDifficulty \in Unrecognized :
          /\ GenerateRan(headers, requestedDifficulty)
          /\ (headers.ua.tablet \/ headers.ua.ipad)
          => captchaStore'["c1"].difficulty = "medium"]_vars

-----------------------------------------------------------------------------
(* properties of the periodic cleanup                                      *)

\* C18: right after a sweep at instant now the store holds no challenge with
\* expiresAt < now, and every challenge with expiresAt >= now that was
\* stored before it is still stored, with every field as it was.
SweepPostcondition ==
    [][(cleanupDue' # cleanupDue /\ Cleanup)
          => /\ \A id \in DOMAIN captchaStore' : ~(captchaStore'[id].expiresAt < clock')
             /\ \A id \in DOMAIN captchaStore :
                   captchaStore[id].expiresAt >= clock
                   => /\ id \in DOMAIN captchaStore'
                      /\ captchaStore'[id] = captchaStore[id]]_vars

\* C18: a sweep has just run at the very instant a challenge that has been
\* answered expires, and the challenge is still stored.
SweepPostconditionWitness ==
    /\ cleanupDue = clock + cleanupInterval
    /\ "c1" \in DOMAIN captchaStore
    /\ captchaStore["c1"].expiresAt = clock
    /\ captchaStore["c1"].attempts >= 1
    /\ captchaStore["c1"].lastValidation.present

\* C19: with time advancing and the cleanup timer firing, a challenge that is
\* in the store, whether it is never validated or only answered wrongly, is
\* eventually out of the store.
EventuallyRemoved ==
    \A id \in CaptchaIds : (id \in DOMAIN captchaStore) ~> (id \notin DOMAIN captchaStore)

\* C19: a challenge that no call redeemed was removed by the sweep.
EventuallyRemovedWitness ==
    /\ "c1" \in issued
    /\ validReturns["c1"] = 0
    /\ removedBy["c1"] = "sweep"

-----------------------------------------------------------------------------
(* the state machine of one challenge at the attempt limit                 *)

\* C20, as claimed: the wrong answer that brings attempts to maxAttempts
\* removes the challenge, and a challenge that is stored after a validate
\* call has attempts < maxAttempts.
RemovedAtLimit ==
    [][\A id \in CaptchaIds, answer \in WellFormed :
          ValidateRan(id, answer) /\ id \in DOMAIN captchaStore
          => /\ (Unexpired(id) /\ Wrong(id, answer)
                 /\ captchaStore[id].attempts + 1 = maxAttempts)
                => id \notin DOMAIN captchaStore'
             /\ id \in DOMAIN captchaStore'
                => captchaStore'[id].attempts < maxAttempts]_vars

\* C20, amended: the wrong answer that brings attempts to maxAttempts leaves
\* the challenge in the store, with attempts = maxAttempts; the next
\* validate call on it, whatever its value, compares nothing, is answered
\* "Too many attempts" and removes it; a challenge that is stored after a
\* validate call has attempts <= maxAttempts.
RemovedPastLimit ==
    [][\A id \in CaptchaIds, answer \in WellFormed :
          (ValidateRan(id, answer) /\ id \in DOMAIN captchaStore /\ Unexpired(id))
          => /\ (Wrong(id, answer) /\ captchaStore[id].attempts + 1 = maxAttempts)
                => /\ id \in DOMAIN captchaStore'
                   /\ captchaStore'[id].attempts = maxAttempts
             /\ captchaStore[id].attempts = maxAttempts
                => /\ id \notin DOMAIN captchaStore'
                   /\ response'.reason = "Too many attempts"
                   /\ ~response'.valid
                   /\ comparisons' = comparisons
             /\ id \in DOMAIN captchaStore'
                => captchaStore'[id].attempts <= maxAttempts]_vars

\* C20: the wrong answer that brought attempts to maxAttempts has been
\* answered and the challenge is still stored.
RemovedPastLimitWitness ==
    /\ response.kind = "/api/validate-captcha"
    /\ response.reason = "Wrong answer"
    /\ response.attempts = maxAttempts
    /\ response.captchaId \in DOMAIN captchaStore
    /\ captchaStore[response.captchaId].attempts = maxAttempts

-----------------------------------------------------------------------------
(* properties of a stored challenge                                        *)

\* C21: every stored challenge has expiresAt = createdAt + expiration, with
\* createdAt and expiresAt as the generation handler stored them, and has
\* attempts = 0 as long as no validate call has counted on it.
ExpiryIsCreationPlusTtl ==
    \A id \in DOMAIN captchaStore :
        /\ captchaStore[id].expiresAt = captchaStore[id].createdAt + expiration
        /\ comparisons[id] = 0 => captchaStore[id].attempts = 0

-----------------------------------------------------------------------------
(* properties of the generator (SpecGenerator)                             *)

\* The generation handler stored the puzzle of (difficulty, r) under c1.
Generated(difficulty, r) ==
    /\ response'.status = 200
    /\ response'.difficulty = difficulty
    /\ Generate(Client, Browser, difficulty, r, "c1", 0, 0)

\* The kinds of puzzle a question template belongs to.
KindsOf(form) ==
    CASE form = "What is a + b?" -> {"addition"}
      [] form = "What is a - b?" -> {"subtraction"}
      [] form = "What is a x b?" -> {"multiplication"}
      [] form = "Type the number: word(a)" -> {"numberToText"}
      [] form \in {"Calculate: a + b", "Calculate: a - b", "Calculate: a * b"} ->
            {"mixedOperations"}
      [] form \in {"apples: a and b more", "pizza: a slices, eat b",
                   "cars: a with b wheels"} -> {"wordProblem"}
      [] form = "Solve for x: ax + b = c" -> {"complexAlgebra", "simpleAlgebra"}
      [] OTHER -> {"logicPuzzle"}

\* C22: the result of generateCaptcha carries a type that is one of the
\* difficulty's types and names the kind of puzzle that was generated, and
\* the stored challenge has that type.
KindTag ==
    [][\A difficulty \in allowedDifficulties, r \in DrawTuples :
          Generated(difficulty, r)
          => LET captcha == generateCaptcha(difficulty, r)
                 types == difficulties(difficulty).types
             IN  /\ \E k \in 1..Len(types) : captcha.type = types[k]
                 /\ captcha.type \in KindsOf(captcha.question.form)
                 /\ captchaStore'["c1"].type = captcha.type]_vars

\* The answer of a question, from its template and the numbers shown in it.
Solution(question) ==
    LET form == question.form
        a == question.a
        b == question.b
    IN  CASE form \in {"What is a + b?", "Calculate: a + b", "apples: a and b more"} -> a + b
          [] form = "What is a - b?" -> IF a >= b THEN a - b ELSE b - a
          [] form \in {"Calculate: a - b", "pizza: a slices, eat b"} -> a - b
          [] form \in {"What is a x b?", "Calculate: a * b", "cars: a with b wheels"} -> a * b
          [] form = "Type the number: word(a)" -> a
          [] form = "Solve for x: ax + b = c" ->
                CHOOSE x \in 0..question.c : a * x + b = question.c
          [] form = "next number: 2, 4, 6, 8, ?" -> 8 + (8 - 6)
          [] OTHER -> 3

\* C23: for every difficulty and every draw, the answer of generateCaptcha,
\* which is the answer the handler stores, is the solution of the question
\* it returns.
AnswerSolvesQuestion ==
    [][\A difficulty \in allowedDifficulties, r \in DrawTuples :
          Generated(difficulty, r)
          => LET captcha == generateCaptcha(difficulty, r)
             IN  /\ captcha.answer = Solution(captcha.question)
                 /\ captchaStore'["c1"].answer = captcha.answer]_vars

\* C23: an algebra puzzle of the extreme difficulty is stored with its x.
AnswerSolvesQuestionWitness ==
    /\ "c1" \in DOMAIN captchaStore
    /\ captchaStore["c1"].difficulty = "extreme"
    /\ captchaStore["c1"].type = "complexAlgebra"
    /\ captchaStore["c1"].answer >= 3
    /\ captchaStore["c1"].answer <= 8

-----------------------------------------------------------------------------
(* properties of the stored context (SpecContext)                          *)

\* C24: the context stored with a challenge is the one of its creation: no
\* step, be it a validate call, a sweep or the 'finish' callback of the
\* generating request, changes the context of a challenge that stays stored.
ContextSnapshot ==
    [][\A id \in DOMAIN captchaStore \cap DOMAIN captchaStore' :
          id \in issued' \cap issued
          => captchaStore'[id].context = captchaStore[id].context]_vars

-----------------------------------------------------------------------------
(* properties of the limiter under the cleanup timer (SpecSweep)           *)

\* The requests let through under key.
AdmittedUnder(key) == IF key \in DOMAIN admitted THEN admitted[key] ELSE <<>>

\* How many of the instants of seq lie in (t - windowMs, t].
CountIn(seq, t) ==
    Cardinality({i \in 1..Len(seq) : seq[i] > t - windowMs /\ seq[i] <= t})

\* C25: under every key, at the current instant and at every instant a
\* request was let through, the requests let through in the windowMs up to
\* that instant are at most the max of the key's class; and no stored
\* sequence is longer than that max.
WindowBound ==
    /\ \A key \in DOMAIN admitted :
          \A t \in {clock} \cup {admitted[key][i] : i \in 1..Len(admitted[key])} :
              CountIn(admitted[key], t) <= limitMax(key[2])
    /\ \A key \in DOMAIN requestCounts :
          Len(requestCounts[key]) <= limitMax(key[2])

\* C25: a key was rejected at its max and, a window later, was let through
\* once more, after a sweep that deleted another key from the map.
WindowBoundWitness ==
    LET key == KeyOf(Client, "/api/validate-captcha")
        other == KeyOf(Client, "/api/health")
    IN  /\ key \in rejected
        /\ Len(AdmittedUnder(key)) = maxCaptchaValidation + 1
        /\ Window(key) = <<clock>>
        /\ other \in DOMAIN admitted
        /\ other \notin DOMAIN requestCounts

\* C28: every check is answered as the limiter answers over all the requests
\* ever let through under its key, swept or not: 429 exactly when max of them
\* are less than windowMs old, with retryAfter counted from the oldest of
\* those.
SweepInvisible ==
    [][\A path \in LimiterPaths :
          LimiterRequest(Client, path)
          => LET key == KeyOf(Client, path)
                 unswept == SelectSeq(AdmittedUnder(key),
                                      LAMBDA time : clock - time < windowMs)
             IN  IF Len(unswept) >= limitMax(configKeyOf(path))
                 THEN /\ response'.status = 429
                      /\ response'.retryAfter = Ceil(unswept[1] + windowMs - clock, 1000)
                 ELSE /\ response'.status # 429
                      /\ WindowAfter(key) = Append(unswept, clock)]_vars

\* C28: a request was let through at a later instant than a sweep that had
\* dropped the key's only timestamp, a day old by then.
SweepInvisibleWitness ==
    LET a == AdmittedUnder(KeyOf(Client, "/api/health"))
        swept == cleanupDue - cleanupInterval
    IN  /\ response.kind = "/api/health"
        /\ response.status = 200
        /\ Len(a) = 2
        /\ swept - a[1] >= rateLimitCleanupWindow
        /\ clock > swept
        /\ a[2] = clock

-----------------------------------------------------------------------------
(* properties of the attempt counter (SpecLate)                            *)

\* C26: no challenge has more than maxAttempts answers compared; and the
\* correct answer submitted for an unexpired challenge that has counted
\* maxAttempts attempts is not compared: the call returns "Too many
\* attempts" with valid=false and removes the challenge.
CorrectAnswerTooLate ==
    [][/\ \A id \in CaptchaIds : comparisons'[id] <= maxAttempts
       /\ \A id \in DOMAIN captchaStore :
             (/\ captchaStore[id].attempts = maxAttempts
              /\ Unexpired(id)
              /\ ~Wrong(id, Seven)
              /\ response'.status # 429
              /\ \E d2 \in {0, 1} : Validate(Client, id, Seven, 0, d2))
             => /\ response'.reason = "Too many attempts"
                /\ ~response'.valid
                /\ id \notin DOMAIN captchaStore'
                /\ comparisons'[id] = maxAttempts
                /\ validReturns'[id] = 0]_vars

\* C26: the correct answer came as the attempt after maxAttempts wrong ones
\* and removed the challenge.
CorrectAnswerTooLateWitness ==
    /\ removedBy["c1"] = "attempts"
    /\ comparisons["c1"] = maxAttempts
    /\ validReturns["c1"] = 0
    /\ response.reason = "Too many attempts"
    /\ response.captchaId = "c1"

-----------------------------------------------------------------------------
(* properties of the recorded outcome (SpecValues)                         *)

\* C27: no stored challenge has a lastValidation marked valid; a stored
\* challenge has a lastValidation exactly when its attempts are 1 or more;
\* and the analytics counters are successfulValidations = 0 and
\* failedValidations = the number of stored challenges with attempts >= 1.
OutcomeWithAttempts ==
    /\ \A id \in DOMAIN captchaStore :
          /\ ~(captchaStore[id].lastValidation.present
               /\ captchaStore[id].lastValidation.valid)
          /\ captchaStore[id].lastValidation.present <=> captchaStore[id].attempts >= 1
    /\ successfulValidations(captchaStore) = 0
    /\ failedValidations(captchaStore) =
          Cardinality({id \in DOMAIN captchaStore : captchaStore[id].attempts >= 1})

\* C6: a validate call on an unexpired challenge with attempts left, with a
\* value of any JSON type that is not the stored answer, is answered with
\* valid=false and no error status, keeps the challenge with attempts one
\* higher, and records the submission as its lastValidation, not valid.
WrongValueRetained ==
    [][\A id \in DOMAIN captchaStore, answer \in AnyAnswers :
          (/\ response'.status # 429
           /\ Unexpired(id)
           /\ captchaStore[id].attempts < maxAttempts
           /\ (Throws(answer) \/ Wrong(id, answer))
           /\ Validate(Client, id, answer, 0, 0))
          => /\ response'.status = 200
             /\ ~response'.valid
             /\ id \in DOMAIN captchaStore'
             /\ captchaStore'[id].attempts = captchaStore[id].attempts + 1
             /\ captchaStore'[id].lastValidation.present
             /\ ~captchaStore'[id].lastValidation.valid
             /\ captchaStore'[id].lastValidation.userAnswer = answer]_vars

\* C2: of the validate calls on an unexpired challenge with a value of any
\* JSON type that is not the stored answer, those made with attempts left
\* are answered "Wrong answer" and keep the challenge; the one made with
\* maxAttempts counted is answered "Too many attempts" and removes it; and
\* every call on the id after that is answered "Invalid or expired CAPTCHA".
AttemptLimitAnyValue ==
    [][\A answer \in AnyAnswers :
          (response'.status # 429 /\ Validate(Client, "c1", answer, 0, 0))
          => /\ ("c1" \in DOMAIN captchaStore /\ Unexpired("c1")
                 /\ (Throws(answer) \/ Wrong("c1", answer)))
                => IF captchaStore["c1"].attempts < maxAttempts
                   THEN /\ response'.reason = "Wrong answer"
                        /\ "c1" \in DOMAIN captchaStore'
                   ELSE /\ response'.reason = "Too many attempts"
                        /\ "c1" \notin DOMAIN captchaStore'
             /\ removedBy["c1"] = "attempts"
                => response'.reason = "Invalid or expired CAPTCHA"]_vars

=============================================================================
